---- MODULE Spec2Model ----
(***************************************************************************)
(* Palisade moderation API: the request-admission pipeline.                *)
(*   routes.py       get_api_key, rate_limit, moderate_*, _log_usage       *)
(*   routes_keys.py  create_key, revoke_self, admin_revoke                 *)
(*   key_utils.py    generate_key, hash_key                                *)
(*   config.py       PALISADE_API_KEYS, RATE_LIMIT_RPM, SIGNUP_SECRET      *)
(*   db.py           ApiKey, RequestLog                                    *)
(*                                                                         *)
(* get_api_key and rate_limit are plain `def` dependencies, which FastAPI  *)
(* runs in worker threads: their statements interleave between requests.   *)
(* Time is in whole seconds.  Token counts are kept in units of            *)
(* 1/window_seconds of a token, so that the refill of one second           *)
(* (RATE_LIMIT_RPM / window_seconds tokens) is exactly RATE_LIMIT_RPM      *)
(* units and the arithmetic is exact.                                      *)
(***************************************************************************)
EXTENDS Integers, Sequences, FiniteSets, TLC

VARIABLES env, now, apikeys, issued, buckets, bstat, req, started, request_logs

vars == <<env, now, apikeys, issued, buckets, bstat, req, started, request_logs>>

-----------------------------------------------------------------------------
(* Bounds of the model *)

MaxRequests == 2
MaxKeys == 1
MaxTime == 40
TimeStep == 40
SeqMaxTime == 40
SeqRequests == 1
BurstRequests == 33
BurstMaxTime == 2
BurstMaxStep == 2
MwRequests == 2
ShareRequests == 2
MaxChunks == 2

Threads == {"t1", "t2"}
SeqThreads == {"t1"}

Min(a, b) == IF a < b THEN a ELSE b
Max(a, b) == IF a > b THEN a ELSE b

-----------------------------------------------------------------------------
(* Configuration: config.py *)

NoHeader == "<missing>"
Unset == "<unset>"
NoneId == 0

KEY_PREFIX == "pal_live_"
PlaintextPool == <<"pal_live_A", "pal_live_B", "pal_live_C">>
SaltPool == <<"salt1", "salt2", "salt3">>
Plaintexts == {PlaintextPool[i] : i \in 1..Min(MaxKeys, Len(PlaintextPool))}

LegacyChoices == {{}, {"legacy_key"}}
ShareLegacyChoices == {{}, {"legacy_key", "legacy_key2"}}
DefaultRpm == 60
RpmChoices == {1, 4}
SeqRpmChoices == {4}
BurstRpmChoices == {DefaultRpm, 30}
SignupChoices == {Unset, "signup-secret"}

Headers == Plaintexts \cup {NoHeader, "legacy_key"}
ShareHeaders == Headers \cup {"legacy_key2"}
SignupHeaders == {NoHeader, "signup-secret"}

Truthy(s) == s # NoHeader /\ s # Unset /\ s # ""

window_seconds == 60
RATE_LIMIT_RPM == Max(1, env.RATE_LIMIT_RPM)
RATE_LIMIT_BURST == Max(1, Max(1, RATE_LIMIT_RPM \div 2))
OneToken == window_seconds
capacity == RATE_LIMIT_BURST * OneToken
refill_per_sec == RATE_LIMIT_RPM

-----------------------------------------------------------------------------
(* key_utils.py, db.py: the key store *)

Sha256(msg) == <<"sha256", msg>>

(* Variant: the digest of the plaintext alone *)
hash_key_Unsalted(salt, plaintext) == Sha256(<<plaintext>>)

hash_key(salt, plaintext) == Sha256(<<salt, plaintext>>)
generate_key(plaintext, salt) == <<plaintext, salt, Sha256(<<salt, plaintext>>)>>

ApiKey(id, salt, h) == [id |-> id, key_salt |-> salt, key_hash |-> h, prefix |-> KEY_PREFIX, is_active |-> TRUE]

ActiveRows == SelectSeq(apikeys, LAMBDA rec : rec.is_active)

Matches(rows, secret) == {i \in 1..Len(rows) : hash_key(rows[i].key_salt, secret) = rows[i].key_hash}

FirstMatch(rows, secret) ==
    IF Matches(rows, secret) = {} THEN 0
    ELSE CHOOSE i \in Matches(rows, secret) : \A j \in Matches(rows, secret) : i <= j

-----------------------------------------------------------------------------
(* routes.py: get_api_key *)

(* Variant: dev mode returns the presented secret instead of "dev-mode" *)
get_api_key_SecretAsBucket(api_key) ==
    LET rows == ActiveRows
        m == IF Truthy(api_key) THEN FirstMatch(rows, api_key) ELSE 0
    IN  IF m # 0
        THEN [status |-> 200, api_key_id |-> rows[m].id, api_key |-> api_key]
        ELSE IF env.PALISADE_API_KEYS = {}
        THEN [status |-> 200, api_key_id |-> NoneId, api_key |-> api_key]
        ELSE IF Truthy(api_key) /\ api_key \in env.PALISADE_API_KEYS
        THEN [status |-> 200, api_key_id |-> NoneId, api_key |-> api_key]
        ELSE [status |-> 401, api_key_id |-> NoneId, api_key |-> ""]

get_api_key(api_key) ==
    LET rows == ActiveRows
        m == IF Truthy(api_key) THEN FirstMatch(rows, api_key) ELSE 0
    IN  IF m # 0
        THEN [status |-> 200, api_key_id |-> rows[m].id, api_key |-> api_key]
        ELSE IF env.PALISADE_API_KEYS = {}
        THEN [status |-> 200, api_key_id |-> NoneId, api_key |-> "dev-mode"]
        ELSE IF Truthy(api_key) /\ api_key \in env.PALISADE_API_KEYS
        THEN [status |-> 200, api_key_id |-> NoneId, api_key |-> api_key]
        ELSE [status |-> 401, api_key_id |-> NoneId, api_key |-> ""]

-----------------------------------------------------------------------------
(* routes.py: rate_limit *)

BucketGet(key, t) == IF key \in DOMAIN buckets THEN buckets[key] ELSE [tokens |-> capacity, last |-> t]

(* Variant: the write replaces the whole dictionary *)
BucketPutOnly(key, val) == [k \in {key} |-> val]

(* _buckets[key] = val *)
BucketPut(key, val) == [k \in DOMAIN buckets \cup {key} |-> IF k = key THEN val ELSE buckets[k]]

(* Variant: a rejection stores the time of the call with the old count *)
OnReject_StampOnly(key, t) ==
    IF key \in DOMAIN buckets THEN BucketPut(key, [tokens |-> buckets[key].tokens, last |-> t]) ELSE buckets

(* raise HTTPException(429) before the write of line 58: nothing is stored *)
OnReject(key, t) == buckets

(* Variant: the refill without min(capacity, ...) *)
RefillNoCap(tokens, last, t) == tokens + (t - last) * refill_per_sec

Refill(tokens, last, t) == Min(capacity, tokens + (t - last) * refill_per_sec)

(* Variant: tokens <= 1.0 instead of tokens < 1.0 *)
RejectsBelowOrAt(tokens) == tokens <= OneToken

Rejects(tokens) == tokens < OneToken

-----------------------------------------------------------------------------
(* The per-request state: pc is the position in the dependency chain       *)
(* get_api_key -> rate_limit -> handler; hdr, now, tokens and t0 are the   *)
(* locals of those functions and are dropped when the function returns;    *)
(* api_key_id is request.state.api_key_id; logged is the list of           *)
(* _log_usage calls made for the request.  bstat is the history of each    *)
(* bucket: the time of its first call, the calls made (n0) and admitted    *)
(* (a0) at that time, and the outcome and time of its last call.           *)

NoInput == [ep |-> "", valid |-> FALSE, size |-> 0, reply |-> "", fail |-> ""]
NoBody == [safe |-> "", action |-> "", detail |-> ""]

(* The locals of LoggingMiddleware.dispatch (main.py): the inbound          *)
(* x-request-id header, req_id, start_time, the response call_next         *)
(* returned (inner) and the response dispatch returns (out).               *)
NoResponse == [status |-> 0, rid |-> NoHeader, keys |-> {}, chunks |-> <<>>, duration_ms |-> 0]
MwIdle == [inbound |-> NoHeader, req_id |-> "", start_time |-> 0, inner |-> NoResponse, out |-> NoResponse]

ReqIdle ==
    [pc |-> "idle", hdr |-> NoHeader, api_key_id |-> NoneId, api_key |-> "",
     now |-> 0, tokens |-> 0, t0 |-> 0, inp |-> NoInput,
     stage |-> "", status |-> 0, body |-> NoBody, logged |-> <<>>, mw |-> MwIdle]

InitWith(legacy, rpms, signups) ==
    /\ env \in [PALISADE_API_KEYS : legacy, RATE_LIMIT_RPM : rpms, SIGNUP_SECRET : signups]
    /\ now = 0
    /\ apikeys = <<>>
    /\ issued = <<>>
    /\ buckets = <<>>
    /\ bstat = <<>>
    /\ req = [t \in Threads |-> ReqIdle]
    /\ started = 0
    /\ request_logs = <<>>

Tick(dt, max) ==
    /\ now + dt <= max
    /\ now' = now + dt
    /\ UNCHANGED <<env, apikeys, issued, buckets, bstat, req, started, request_logs>>

Start(t, limit, hdrs) ==
    /\ req[t].pc = "idle"
    /\ started < limit
    /\ \E h \in hdrs : req' = [req EXCEPT ![t] = [ReqIdle EXCEPT !.pc = "auth", !.hdr = h]]
    /\ started' = started + 1
    /\ UNCHANGED <<env, now, apikeys, issued, buckets, bstat, request_logs>>

(* Variant: the 401 is recorded but the dependency chain goes on *)
GetApiKey_ContinueOn401(t) ==
    /\ req[t].pc = "auth"
    /\ LET r == get_api_key(req[t].hdr)
       IN  req' = [req EXCEPT ![t] =
                [@ EXCEPT !.pc = "rl_now",
                          !.stage = IF r.status = 401 THEN "auth" ELSE "",
                          !.status = IF r.status = 401 THEN 401 ELSE 0,
                          !.api_key_id = r.api_key_id,
                          !.api_key = r.api_key]]
    /\ UNCHANGED <<env, now, apikeys, issued, buckets, bstat, started, request_logs>>

GetApiKey(t) ==
    /\ req[t].pc = "auth"
    /\ LET r == get_api_key(req[t].hdr)
       IN  req' = [req EXCEPT ![t] =
                [@ EXCEPT !.pc = IF r.status = 401 THEN "done" ELSE "rl_now",
                          !.hdr = IF r.status = 401 THEN NoHeader ELSE @,
                          !.stage = IF r.status = 401 THEN "auth" ELSE "",
                          !.status = IF r.status = 401 THEN 401 ELSE 0,
                          !.api_key_id = r.api_key_id,
                          !.api_key = r.api_key]]
    /\ UNCHANGED <<env, now, apikeys, issued, buckets, bstat, started, request_logs>>

RlNow(t) ==
    /\ req[t].pc = "rl_now"
    /\ req' = [req EXCEPT ![t] = [@ EXCEPT !.pc = "rl_read", !.now = now, !.hdr = NoHeader]]
    /\ UNCHANGED <<env, now, apikeys, issued, buckets, bstat, started, request_logs>>

RlRead(t) ==
    /\ req[t].pc = "rl_read"
    /\ LET b == BucketGet(req[t].api_key, req[t].now)
       IN  req' = [req EXCEPT ![t] = [@ EXCEPT !.pc = "rl_check",
                                               !.tokens = Refill(b.tokens, b.last, req[t].now)]]
    /\ UNCHANGED <<env, now, apikeys, issued, buckets, bstat, started, request_logs>>

(* The algorithm of the specification (section 4.2), in the same units:   *)
(* a rejection stores the refilled count and the time of the call.        *)
AdmitSpecified(tokens, last, t) ==
    LET refilled == Min(capacity, tokens + (t - last) * refill_per_sec)
    IN  IF refilled < OneToken
        THEN [admit |-> FALSE, tokens |-> refilled, last |-> t]
        ELSE [admit |-> TRUE, tokens |-> refilled - OneToken, last |-> t]

(* The history of a bucket; stokens and slast are the state the specified *)
(* algorithm has after the same calls, agree whether it decided every     *)
(* call as rate_limit did.                                                 *)
BStatGet(key, t) ==
    IF key \in DOMAIN bstat THEN bstat[key]
    ELSE [first |-> t, n0 |-> 0, a0 |-> 0, lastOut |-> "", lastAt |-> t,
          stokens |-> capacity, slast |-> t, agree |-> TRUE]

BStatPut(key, t, admitted) ==
    LET s == BStatGet(key, t)
        same == (t = s.first)
        sp == AdmitSpecified(s.stokens, s.slast, t)
        new == [first |-> s.first,
                n0 |-> IF same THEN s.n0 + 1 ELSE s.n0,
                a0 |-> IF same /\ admitted THEN s.a0 + 1 ELSE s.a0,
                lastOut |-> IF admitted THEN "admit" ELSE "reject",
                lastAt |-> t,
                stokens |-> sp.tokens, slast |-> sp.last,
                agree |-> s.agree /\ (sp.admit = admitted)]
    IN  [k \in DOMAIN bstat \cup {key} |-> IF k = key THEN new ELSE bstat[k]]

AfterWait(key, t) ==
    /\ key \in DOMAIN bstat
    /\ bstat[key].lastOut = "reject"
    /\ (t - bstat[key].lastAt) * refill_per_sec >= OneToken

RlCheck(t) ==
    /\ req[t].pc = "rl_check"
    /\ LET key == req[t].api_key
       IN  IF Rejects(req[t].tokens)
           THEN /\ req' = [req EXCEPT ![t] = [@ EXCEPT !.pc = "done", !.stage = "rl", !.status = 429, !.api_key = "",
                                                       !.now = 0, !.tokens = 0]]
                /\ bstat' = BStatPut(key, req[t].now, FALSE)
                /\ buckets' = OnReject(key, req[t].now)
           ELSE /\ buckets' = BucketPut(key, [tokens |-> req[t].tokens - OneToken, last |-> req[t].now])
                /\ req' = [req EXCEPT ![t] = [@ EXCEPT !.pc = "handler", !.now = 0, !.tokens = 0]]
                /\ bstat' = BStatPut(key, req[t].now, TRUE)
    /\ UNCHANGED <<env, now, apikeys, issued, started, request_logs>>

Reset(t) ==
    /\ req[t].pc = "done"
    /\ req' = [req EXCEPT ![t] = ReqIdle]
    /\ UNCHANGED <<env, now, apikeys, issued, buckets, bstat, started, request_logs>>

-----------------------------------------------------------------------------
(* routes.py: helpers of the moderation handlers *)

Endpoints == {"/moderate/text", "/moderate/image", "/moderate/contextual"}

(* Exceptions the collaborator call can raise (openai), with their base class *)
OpenAIErrors == {"APIError", "APIConnectionError", "APITimeoutError", "APIStatusError",
                 "BadRequestError", "AuthenticationError", "PermissionDeniedError",
                 "RateLimitError", "InternalServerError"}

BaseClass(e) ==
    CASE e = "APITimeoutError" -> "APIConnectionError"
      [] e = "APIConnectionError" -> "APIError"
      [] e = "APIStatusError" -> "APIError"
      [] e \in {"BadRequestError", "AuthenticationError", "PermissionDeniedError",
                "RateLimitError", "InternalServerError"} -> "APIStatusError"
      [] OTHER -> "Exception"

isinstance(e, cls) ==
    \/ e = cls
    \/ BaseClass(e) = cls
    \/ BaseClass(BaseClass(e)) = cls
    \/ BaseClass(BaseClass(BaseClass(e))) = cls

_map_openai_error(e) ==
    IF isinstance(e, "BadRequestError") THEN [status |-> 400, detail |-> "Bad request to model"]
    ELSE IF isinstance(e, "AuthenticationError") THEN [status |-> 401, detail |-> "Upstream auth failed"]
    ELSE IF isinstance(e, "PermissionDeniedError") THEN [status |-> 403, detail |-> "Upstream permission denied"]
    ELSE IF isinstance(e, "RateLimitError") THEN [status |-> 429, detail |-> "Upstream rate limited"]
    ELSE IF isinstance(e, "APIConnectionError") THEN [status |-> 504, detail |-> "Upstream connection error"]
    ELSE IF isinstance(e, "APIError") THEN [status |-> 502, detail |-> "Upstream model error"]
    ELSE [status |-> 500, detail |-> "Unexpected moderation error"]

(* The collaborator's replies.  Text endpoint: the moderation result.  Image *)
(* and contextual endpoints: the content string of the first choice.         *)
TextReplies == {"clean", "flagged_hi", "flagged_lo"}
NoneContent == "<None>"
ChatContents == {NoneContent, "", "I cannot assess this.", "Verdict: {\"safe\": false}",
                 "{\"categories\": []}", "{\"safe\": true}",
                 "{\"safe\": false, \"suggested_action\": \"block\"}", "[1]"}

RaisedBy == {"APITimeoutError", "APIConnectionError", "RateLimitError", "BadRequestError",
             "AuthenticationError", "PermissionDeniedError", "InternalServerError", "ValueError"}

Replies(ep) == (IF ep = "/moderate/text" THEN TextReplies ELSE ChatContents) \cup RaisedBy

JsonValue(kind, empty, has_safe, safe, action) ==
    [kind |-> kind, empty |-> empty, has_safe |-> has_safe, safe |-> safe, action |-> action]
EmptyDict == JsonValue("dict", TRUE, FALSE, FALSE, "")

(* json.loads on the contents above: [ok, val] *)
json_loads(text) ==
    CASE text = "{\"categories\": []}" -> [ok |-> TRUE, val |-> JsonValue("dict", FALSE, FALSE, FALSE, "")]
      [] text = "{\"safe\": true}" -> [ok |-> TRUE, val |-> JsonValue("dict", FALSE, TRUE, TRUE, "")]
      [] text = "{\"safe\": false, \"suggested_action\": \"block\"}" ->
             [ok |-> TRUE, val |-> JsonValue("dict", FALSE, TRUE, FALSE, "block")]
      [] text = "[1]" -> [ok |-> TRUE, val |-> JsonValue("list", FALSE, FALSE, FALSE, "")]
      [] OTHER -> [ok |-> FALSE, val |-> EmptyDict]

(* re.search with the pattern of line 104: Python's re has no (?R), so *)
(* compiling the pattern raises re.error whatever the text is.          *)
re_search(text) == [raised |-> "re.error", found |-> FALSE]

_extract_json(text) ==
    IF text = NoneContent \/ text = "" THEN [raised |-> "", val |-> EmptyDict]
    ELSE IF json_loads(text).ok THEN [raised |-> "", val |-> json_loads(text).val]
    ELSE IF re_search(text).raised # "" THEN [raised |-> re_search(text).raised, val |-> EmptyDict]
    ELSE [raised |-> "", val |-> EmptyDict]

PyOr(val, default) == IF val.empty \/ val.kind = "null" THEN default ELSE val

PyBool(b) == IF b THEN "true" ELSE "false"

(* parsed.get(...) on the verdict: [raised, body] *)
ChatVerdict(parsed) ==
    IF parsed.kind # "dict" THEN [raised |-> "AttributeError", body |-> NoBody]
    ELSE [raised |-> "",
          body |-> [safe |-> PyBool(IF parsed.has_safe THEN parsed.safe ELSE TRUE),
                    action |-> IF parsed.action # "" THEN parsed.action ELSE "allow",
                    detail |-> ""]]

TextVerdict(reply) ==
    [safe |-> PyBool(reply = "clean"),
     action |-> IF reply = "clean" THEN "allow" ELSE IF reply = "flagged_hi" THEN "block" ELSE "escalate",
     detail |-> ""]

-----------------------------------------------------------------------------
(* routes.py: _log_usage; db.py: RequestLog *)

RequestLogColumns == {"id", "api_key_id", "endpoint", "request_size_bytes", "status_code",
                      "duration_ms", "moderation_result", "created_at"}
LogKwargs == {"api_key_id", "endpoint", "size_bytes", "status_code", "duration_ms", "payload_json"}

LogFailures == {"none", "session", "dumps", "add", "commit"}

(* The first step of _log_usage that raises: the injected storage or        *)
(* serialization failure, or the TypeError of the declarative constructor   *)
(* for a keyword that is no column of RequestLog.                           *)
LogFailsAt(fail) ==
    IF fail \in {"session", "dumps"} THEN fail
    ELSE IF ~(LogKwargs \subseteq RequestLogColumns) THEN "construct"
    ELSE IF fail \in {"add", "commit"} THEN fail
    ELSE "none"

LogCall(api_key_id, endpoint, size_bytes, status_code, duration_ms) ==
    [api_key_id |-> api_key_id, endpoint |-> endpoint, size_bytes |-> size_bytes,
     status_code |-> status_code, duration_ms |-> duration_ms]

(* Variant: SessionLocal() called before the try block *)
_log_usage_SessionOutsideTry(api_key_id, endpoint, size_bytes, status_code, duration_ms, fail) ==
    [raised |-> IF fail = "session" THEN "OperationalError" ELSE "",
     call |-> LogCall(api_key_id, endpoint, size_bytes, status_code, duration_ms),
     rows |-> IF LogFailsAt(fail) = "none"
              THEN <<LogCall(api_key_id, endpoint, size_bytes, status_code, duration_ms)>>
              ELSE <<>>]

_log_usage(api_key_id, endpoint, size_bytes, status_code, duration_ms, fail) ==
    [raised |-> "",
     call |-> LogCall(api_key_id, endpoint, size_bytes, status_code, duration_ms),
     rows |-> IF LogFailsAt(fail) = "none"
              THEN <<LogCall(api_key_id, endpoint, size_bytes, status_code, duration_ms)>>
              ELSE <<>>]

-----------------------------------------------------------------------------
(* routes.py: moderate_text, moderate_image, moderate_contextual, from the  *)
(* collaborator's reply on.  Result: the response and the audit calls made. *)

(* except Exception as e: _log_usage(..., 500, ...); raise _map_openai_error(e) *)
OnException(e, api_key_id, ep, size, dur, fail, before) ==
    LET l == _log_usage(api_key_id, ep, size, 500, dur, fail)
    IN  IF l.raised # ""
        THEN [status |-> 500, body |-> [safe |-> "", action |-> "", detail |-> "Internal Server Error"],
              logged |-> before \o <<l.call>>, rows |-> l.rows, stage |-> "unhandled"]
        ELSE [status |-> _map_openai_error(e).status,
              body |-> [safe |-> "", action |-> "", detail |-> _map_openai_error(e).detail],
              logged |-> before \o <<l.call>>, rows |-> l.rows, stage |-> "collab"]

OnVerdict(body, api_key_id, ep, size, dur, fail) ==
    LET l == _log_usage(api_key_id, ep, size, 200, dur, fail)
    IN  IF l.raised # ""
        THEN OnException(l.raised, api_key_id, ep, size, dur, fail, <<l.call>>)
        ELSE [status |-> 200, body |-> body, logged |-> <<l.call>>, rows |-> l.rows, stage |-> "ok"]

moderate(ep, reply, api_key_id, size, dur, fail) ==
    IF reply \in RaisedBy THEN OnException(reply, api_key_id, ep, size, dur, fail, <<>>)
    ELSE IF ep = "/moderate/text" THEN OnVerdict(TextVerdict(reply), api_key_id, ep, size, dur, fail)
    ELSE IF _extract_json(reply).raised # ""
    THEN OnException(_extract_json(reply).raised, api_key_id, ep, size, dur, fail, <<>>)
    ELSE IF ChatVerdict(PyOr(_extract_json(reply).val, EmptyDict)).raised # ""
    THEN OnException(ChatVerdict(PyOr(_extract_json(reply).val, EmptyDict)).raised,
                     api_key_id, ep, size, dur, fail, <<>>)
    ELSE OnVerdict(ChatVerdict(PyOr(_extract_json(reply).val, EmptyDict)).body,
                   api_key_id, ep, size, dur, fail)

InputSize(valid) == IF valid THEN 12 ELSE 0

HandlerEnter(t, eps) ==
    /\ req[t].pc = "handler"
    /\ \E ep \in eps, valid \in BOOLEAN :
         req' = [req EXCEPT ![t] =
                   IF valid
                   THEN [@ EXCEPT !.pc = "collab", !.t0 = now,
                                  !.inp = [NoInput EXCEPT !.ep = ep, !.valid = TRUE, !.size = InputSize(TRUE)]]
                   ELSE [@ EXCEPT !.pc = "done", !.stage = "input", !.status = 400, !.api_key = "",
                                  !.body = [NoBody EXCEPT !.detail = "required field missing"],
                                  !.inp = [NoInput EXCEPT !.ep = ep]]]
    /\ UNCHANGED <<env, now, apikeys, issued, buckets, bstat, started, request_logs>>

HandlerFinish(t, replies, fails) ==
    /\ req[t].pc = "collab"
    /\ \E reply \in Replies(req[t].inp.ep) \cap replies, fail \in fails :
         LET res == moderate(req[t].inp.ep, reply, req[t].api_key_id, req[t].inp.size,
                             (now - req[t].t0) * 1000, fail)
         IN  /\ req' = [req EXCEPT ![t] =
                         [@ EXCEPT !.pc = "done", !.stage = res.stage, !.status = res.status,
                                   !.t0 = 0, !.api_key = "",
                                   !.body = res.body, !.logged = res.logged,
                                   !.inp = [@ EXCEPT !.reply = reply, !.fail = fail]]]
             /\ request_logs' = request_logs \o res.rows
    /\ UNCHANGED <<env, now, apikeys, issued, buckets, bstat, started>>

-----------------------------------------------------------------------------
(* routes_keys.py: key issue and revocation *)

require_signup_secret(x_signup_secret) ==
    ~Truthy(env.SIGNUP_SECRET) \/ (Truthy(x_signup_secret) /\ x_signup_secret = env.SIGNUP_SECRET)

(* secrets.token_urlsafe and secrets.token_hex return values not seen      *)
(* before: the next unused ones of the pools.                              *)
FreshPlaintext == PlaintextPool[Len(apikeys) + 1]
FreshSalt == SaltPool[Len(apikeys) + 1]

create_key ==
    /\ Len(apikeys) < MaxKeys
    /\ Len(apikeys) < Len(PlaintextPool)
    /\ \E x \in SignupHeaders :
         /\ require_signup_secret(x)
         /\ LET k == generate_key(FreshPlaintext, FreshSalt)
            IN  /\ apikeys' = Append(apikeys, ApiKey(Len(apikeys) + 1, k[2], k[3]))
                /\ issued' = Append(issued, k[1])
    /\ UNCHANGED <<env, now, buckets, bstat, req, started, request_logs>>

(* Variant: the flag is flipped *)
Revoke_Toggle(i) == [apikeys EXCEPT ![i].is_active = ~@]

(* rec.is_active = False; db.add(rec); db.commit() *)
Revoke(i) == [apikeys EXCEPT ![i].is_active = FALSE]

revoke_self ==
    /\ \E x_api_key \in Headers :
         /\ Truthy(x_api_key)
         /\ FirstMatch(ActiveRows, x_api_key) # 0
         /\ apikeys' = Revoke(ActiveRows[FirstMatch(ActiveRows, x_api_key)].id)
    /\ UNCHANGED <<env, now, issued, buckets, bstat, req, started, request_logs>>

admin_revoke ==
    /\ \E x \in SignupHeaders, key_id \in 1..MaxKeys :
         /\ require_signup_secret(x)
         /\ key_id \in 1..Len(apikeys)
         /\ apikeys' = Revoke(key_id)
    /\ UNCHANGED <<env, now, issued, buckets, bstat, req, started, request_logs>>

-----------------------------------------------------------------------------
(* main.py: LoggingMiddleware.dispatch *)

RequestIdHeaders == {NoHeader, "", "client-rid"}
UuidPool == <<"uuid-1", "uuid-2", "uuid-3", "uuid-4">>

(* str(uuid.uuid4()): a value not returned before *)
uuid4 == UuidPool[Min(started + 1, Len(UuidPool))]

(* Variant: the inbound header is ignored *)
RequestId_AlwaysFresh(inbound, fresh) == fresh

(* request.headers.get("x-request-id") or str(uuid.uuid4()) *)
RequestId(inbound, fresh) == IF Truthy(inbound) THEN inbound ELSE fresh

duration_ms(start_time) == (now - start_time) * 1000

(* lines 55-78: the request id, the body stash and the request log line *)
Dispatch(t, limit, hdrs) ==
    /\ req[t].pc = "idle"
    /\ started < limit
    /\ \E h \in hdrs, rid \in RequestIdHeaders :
         req' = [req EXCEPT ![t] =
                   [ReqIdle EXCEPT !.pc = "auth", !.hdr = h,
                                   !.mw = [MwIdle EXCEPT !.inbound = rid,
                                                         !.req_id = RequestId(rid, uuid4),
                                                         !.start_time = now]]]
    /\ started' = started + 1
    /\ UNCHANGED <<env, now, apikeys, issued, buckets, bstat, request_logs>>

(* init_db() or the query of get_api_key raises (the store is unreachable): *)
(* no handler of the application catches it, call_next re-raises it         *)
GetApiKeyRaises(t) ==
    /\ req[t].pc = "auth"
    /\ req' = [req EXCEPT ![t] = [@ EXCEPT !.pc = "raised", !.hdr = NoHeader, !.stage = "unhandled"]]
    /\ UNCHANGED <<env, now, apikeys, issued, buckets, bstat, started, request_logs>>

(* The body call_next returns: the verdict of the handler, or the          *)
(* {"detail": ...} that FastAPI makes of an HTTPException                   *)
VerdictKeys == {"safe", "suggested_action"}
ErrorKeys == {"detail"}
ResponseKeys(status) == IF status = 200 THEN VerdictKeys ELSE ErrorKeys

Chunk == {<<>>, <<1>>, <<2, 3>>}
RECURSIVE ChunkSeqs(_)
ChunkSeqs(n) == IF n = 0 THEN {<<>>} ELSE ChunkSeqs(n - 1) \cup {Append(cs, c) : cs \in ChunkSeqs(n - 1), c \in Chunk}

(* line 81: call_next returns the response of the application, its body a  *)
(* stream of chunks                                                        *)
CallNext(t) ==
    /\ req[t].pc = "done"
    /\ \E chunks \in ChunkSeqs(MaxChunks) :
         req' = [req EXCEPT ![t] =
                   [@ EXCEPT !.pc = "mw_resp",
                             !.mw = [@ EXCEPT !.inner = [NoResponse EXCEPT !.status = req[t].status,
                                                                           !.keys = ResponseKeys(req[t].status),
                                                                           !.chunks = chunks]]]]
    /\ UNCHANGED <<env, now, apikeys, issued, buckets, bstat, started, request_logs>>

(* Variant: chunk + resp_body *)
BodyAppend_Prepend(resp_body, chunk) == chunk \o resp_body

(* resp_body += chunk *)
BodyAppend(resp_body, chunk) == resp_body \o chunk

(* resp_body = b""; async for chunk in response.body_iterator: resp_body += chunk *)
RECURSIVE Drain(_, _)
Drain(resp_body, chunks) ==
    IF chunks = <<>> THEN resp_body ELSE Drain(BodyAppend(resp_body, Head(chunks)), Tail(chunks))

(* lines 84-99: the body is drained and put back as one chunk, the header set *)
Capture(t) ==
    /\ req[t].pc = "mw_resp"
    /\ req' = [req EXCEPT ![t] =
                 [@ EXCEPT !.pc = "sent",
                           !.mw = [@ EXCEPT !.out = [req[t].mw.inner EXCEPT
                                                        !.chunks = <<Drain(<<>>, req[t].mw.inner.chunks)>>,
                                                        !.rid = req[t].mw.req_id]]]]
    /\ UNCHANGED <<env, now, apikeys, issued, buckets, bstat, started, request_logs>>

InternalErrorKeys == {"detail", "request_id", "duration_ms"}

(* Variant: the handler catches HTTPException only, anything else goes on *)
dispatch_except_HttpOnly(req_id, start_time) ==
    [pc |-> "escaped", out |-> NoResponse]

(* lines 100-107: except Exception: the generic 500 response *)
dispatch_except(req_id, start_time) ==
    [pc |-> "sent",
     out |-> [status |-> 500, rid |-> req_id, keys |-> InternalErrorKeys,
              chunks |-> <<>>, duration_ms |-> duration_ms(start_time)]]

Except(t) ==
    /\ req[t].pc = "raised"
    /\ LET r == dispatch_except(req[t].mw.req_id, req[t].mw.start_time)
       IN  req' = [req EXCEPT ![t] = [@ EXCEPT !.pc = r.pc, !.status = r.out.status, !.mw = [@ EXCEPT !.out = r.out]]]
    /\ UNCHANGED <<env, now, apikeys, issued, buckets, bstat, started, request_logs>>

(* The transport has the response (or the failure): the request is over *)
Sent(t) ==
    /\ req[t].pc \in {"sent", "escaped"}
    /\ req' = [req EXCEPT ![t] = ReqIdle]
    /\ UNCHANGED <<env, now, apikeys, issued, buckets, bstat, started, request_logs>>

-----------------------------------------------------------------------------
(* Specifications *)

ConcEndpoints == {"/moderate/text"}
ConcReplies == {"clean"}
ConcFails == {"none"}

Init == InitWith(LegacyChoices, RpmChoices, {Unset})

Next ==
    \/ Tick(TimeStep, MaxTime)
    \/ create_key
    \/ revoke_self
    \/ admin_revoke
    \/ \E t \in Threads :
         \/ Start(t, MaxRequests, Headers)
         \/ GetApiKey(t)
         \/ RlNow(t)
         \/ RlRead(t)
         \/ RlCheck(t)
         \/ HandlerEnter(t, ConcEndpoints)
         \/ HandlerFinish(t, ConcReplies, ConcFails)
         \/ Reset(t)

Spec == Init /\ [][Next]_vars

(* One request at a time, every endpoint, reply and audit-log failure *)
InitSeq == InitWith(LegacyChoices, SeqRpmChoices, SignupChoices)

NextSeq ==
    \/ Tick(TimeStep, SeqMaxTime)
    \/ create_key
    \/ revoke_self
    \/ admin_revoke
    \/ \E t \in SeqThreads :
         \/ Start(t, SeqRequests, Headers)
         \/ GetApiKey(t)
         \/ RlNow(t)
         \/ RlRead(t)
         \/ RlCheck(t)
         \/ HandlerEnter(t, Endpoints)
         \/ HandlerFinish(t, TextReplies \cup ChatContents \cup RaisedBy, LogFailures)
         \/ Reset(t)

SpecSeq == InitSeq /\ [][NextSeq]_vars

(* One caller at the default rate of config.py (and at half of it), its   *)
(* calls made one after the other                                          *)
InitBurst == InitWith(LegacyChoices, BurstRpmChoices, {Unset})

NextBurst ==
    \/ \E dt \in 1..BurstMaxStep : Tick(dt, BurstMaxTime)
    \/ \E t \in SeqThreads :
         \/ Start(t, BurstRequests, Headers)
         \/ GetApiKey(t)
         \/ RlNow(t)
         \/ RlRead(t)
         \/ RlCheck(t)
         \/ HandlerEnter(t, ConcEndpoints)
         \/ HandlerFinish(t, ConcReplies, ConcFails)
         \/ Reset(t)

SpecBurst == InitBurst /\ [][NextBurst]_vars

(* Two requests in flight, two secrets on the legacy allow-list, no time  *)
(* passing                                                                 *)
InitShare == InitWith(ShareLegacyChoices, SeqRpmChoices, {Unset})

NextShare ==
    \/ create_key
    \/ revoke_self
    \/ \E t \in Threads :
         \/ Start(t, ShareRequests, ShareHeaders)
         \/ GetApiKey(t)
         \/ RlNow(t)
         \/ RlRead(t)
         \/ RlCheck(t)
         \/ HandlerEnter(t, ConcEndpoints)
         \/ HandlerFinish(t, ConcReplies, ConcFails)
         \/ Reset(t)

SpecShare == InitShare /\ [][NextShare]_vars

(* The requests as LoggingMiddleware sees them, one at a time *)
MwReplies == {"clean", "APITimeoutError"}

InitMw == InitWith(LegacyChoices, RpmChoices, {Unset})

NextMw ==
    \/ Tick(TimeStep, SeqMaxTime)
    \/ \E t \in SeqThreads :
         \/ Dispatch(t, MwRequests, Headers)
         \/ GetApiKey(t)
         \/ GetApiKeyRaises(t)
         \/ RlNow(t)
         \/ RlRead(t)
         \/ RlCheck(t)
         \/ HandlerEnter(t, ConcEndpoints)
         \/ HandlerFinish(t, MwReplies, ConcFails)
         \/ CallNext(t)
         \/ Capture(t)
         \/ Except(t)
         \/ Sent(t)

SpecMw == InitMw /\ [][NextMw]_vars

-----------------------------------------------------------------------------
(* Properties *)

Verified(t) == req[t].pc = "auth" /\ req'[t].pc # "auth"
Admission(t) == req[t].pc = "rl_check" /\ req'[t].pc # "rl_check"
Done(t) == req[t].pc = "done"
Answered(t) == Done(t) /\ req[t].inp.fail # ""

PresentedRevoked(h) == \E i \in 1..Len(apikeys) : issued[i] = h /\ ~apikeys[i].is_active

(* C1: once a key's is_active flag is false, every presentation of its    *)
(* plaintext to get_api_key is rejected with 401, whatever the legacy     *)
(* allow-list is.                                                          *)
C1_RevokedKeyRejected ==
    [][\A t \in Threads :
          (Verified(t) /\ PresentedRevoked(req[t].hdr)) => req'[t].status = 401]_vars

(* C2: no update of a bucket is lost: of the calls made at the instant a  *)
(* bucket is first seen (capacity whole tokens, no time elapsed) at most  *)
(* capacity are admitted, under every interleaving.                       *)
C2_NoLostUpdate ==
    \A k \in DOMAIN bstat : bstat[k].a0 <= RATE_LIMIT_BURST

(* C3: the stored token count of every bucket is within [0, capacity].    *)
C3_TokensInRange ==
    \A k \in DOMAIN buckets : 0 <= buckets[k].tokens /\ buckets[k].tokens <= capacity

C3_Witness ==
    \E k \in DOMAIN buckets :
        /\ buckets[k].tokens = 0
        /\ bstat[k].lastOut = "reject"
        /\ now > bstat[k].first

(* C4: from a bucket not yet seen, the first capacity calls made with no  *)
(* time elapsed are admitted and every further one at that instant is     *)
(* rejected (429); a call made after a rejection and a wait t with        *)
(* rate * t >= 1 token is admitted.                                        *)
C4_BurstThenRefill ==
    /\ [](\A k \in DOMAIN bstat : bstat[k].a0 = Min(bstat[k].n0, RATE_LIMIT_BURST))
    /\ [][\A t \in Threads :
             (Admission(t) /\ AfterWait(req[t].api_key, req[t].now)) => req'[t].status # 429]_vars

C4_Witness ==
    \E k \in DOMAIN bstat :
        /\ env.RATE_LIMIT_RPM = DefaultRpm
        /\ bstat[k].n0 > RATE_LIMIT_BURST
        /\ bstat[k].a0 = RATE_LIMIT_BURST
        /\ bstat[k].lastOut = "admit"
        /\ bstat[k].lastAt > bstat[k].first

Unparseable(reply) ==
    reply \in ChatContents /\ (~json_loads(reply).ok \/ ~json_loads(reply).val.has_safe)

UpstreamErrors == {502, 504}

(* C5: on the image and contextual endpoints a reply that cannot be       *)
(* parsed into a verdict is reported as an upstream error, never as a 200 *)
(* response whose verdict is safe.                                         *)
C5_UnparseableIsUpstreamError ==
    \A t \in Threads :
        (Answered(t) /\ req[t].inp.ep # "/moderate/text" /\ Unparseable(req[t].inp.reply))
            => /\ req[t].status \in UpstreamErrors
               /\ ~(req[t].status = 200 /\ req[t].body.safe = "true")

(* C6: a request rejected with 401, 429 or 400 at a pipeline stage still  *)
(* has _log_usage invoked for it, with that outcome.                       *)
C6_ShortCircuitIsLogged ==
    \A t \in Threads :
        (Done(t) /\ req[t].stage \in {"auth", "rl", "input"})
            => /\ Len(req[t].logged) >= 1
               /\ req[t].logged[Len(req[t].logged)].status_code = req[t].status

(* C7: when the collaborator call times out the caller gets the upstream  *)
(* unavailable response, and _log_usage is invoked with the status code   *)
(* returned to the caller.                                                 *)
C7_TimeoutLoggedWithStatus ==
    \A t \in Threads :
        (Answered(t) /\ req[t].inp.reply = "APITimeoutError")
            => /\ req[t].status \in UpstreamErrors
               /\ Len(req[t].logged) >= 1
               /\ req[t].logged[Len(req[t].logged)].status_code = req[t].status

(* C8: _log_usage never raises, and the status code and body returned are *)
(* those of the same request with no failure of the audit-log write,      *)
(* wherever the write failed.                                              *)
C8_LogFailureInvisible ==
    \A t \in Threads :
        Answered(t) =>
            LET res == moderate(req[t].inp.ep, req[t].inp.reply, req[t].api_key_id,
                                req[t].inp.size, 0, "none")
            IN  /\ req[t].stage # "unhandled"
                /\ req[t].status = res.status
                /\ req[t].body = res.body

C8_Witness ==
    \E t \in Threads :
        /\ Answered(t)
        /\ req[t].inp.fail = "session"
        /\ req[t].status = 200
        /\ request_logs = <<>>

(* C9: whenever the store holds a record, a request whose secret is       *)
(* missing or matches no active record is rejected with 401.              *)
C9_FallbackOnlyOnEmptyStore ==
    [][\A t \in Threads :
          (/\ Verified(t)
           /\ Len(apikeys) >= 1
           /\ (~Truthy(req[t].hdr) \/ FirstMatch(ActiveRows, req[t].hdr) = 0))
            => req'[t].status = 401]_vars

(* C10: with no key in the store and no legacy allow-list, a request is   *)
(* admitted under the null identity whether or not it carries a secret,   *)
(* and all such requests get the same rate-limit bucket.                   *)
DevMode == apikeys = <<>> /\ env.PALISADE_API_KEYS = {}

C10_DevModeIgnoresSecret ==
    DevMode =>
        /\ \A t \in Threads : req[t].status # 401
        /\ \A t \in Threads : req[t].pc = "rl_now" => req[t].api_key_id = NoneId
        /\ \A t, u \in Threads :
              (req[t].pc = "rl_now" /\ req[u].pc = "rl_now") => req[t].api_key = req[u].api_key

C10_Witness ==
    /\ DevMode
    /\ \E t, u \in Threads :
          /\ req[t].pc = "rl_now" /\ req[t].hdr = NoHeader
          /\ req[u].pc = "rl_now" /\ Truthy(req[u].hdr)
          /\ req[t].api_key = req[u].api_key
          /\ req[t].api_key_id = NoneId /\ req[u].api_key_id = NoneId

InLimiter(t) == req[t].pc = "rl_now"
Fallback(t) == req[t].api_key_id = NoneId
AllowListed(t) == req[t].api_key_id = NoneId /\ env.PALISADE_API_KEYS # {}

OnlyOwnBucketChanges ==
    [][/\ \A k \in DOMAIN buckets :
             \/ k \in DOMAIN buckets' /\ buckets'[k] = buckets[k]
             \/ \E t \in Threads : Admission(t) /\ req[t].api_key = k
       /\ \A k \in DOMAIN buckets' \ DOMAIN buckets :
             \E t \in Threads : Admission(t) /\ req[t].api_key = k]_vars

(* C11: two requests entering rate_limit that resolved to different       *)
(* identities, or that presented different secrets and were admitted by   *)
(* the unauthenticated fallback (null identity), have different bucket    *)
(* keys, and an admission check changes no bucket but the one of its key. *)
C11_BucketsNeverShared ==
    /\ [](\A t, u \in Threads :
            (/\ t # u /\ InLimiter(t) /\ InLimiter(u)
             /\ \/ req[t].api_key_id # req[u].api_key_id
                \/ Fallback(t) /\ Fallback(u) /\ req[t].hdr # req[u].hdr)
              => req[t].api_key # req[u].api_key)
    /\ OnlyOwnBucketChanges

(* C11 as amended: the same, the different secrets being secrets of the   *)
(* legacy allow-list; the requests of dev mode all use the one bucket     *)
(* "dev-mode".                                                             *)
C11_BucketsSharedOnlyInDevMode ==
    /\ [](\A t, u \in Threads :
            (/\ t # u /\ InLimiter(t) /\ InLimiter(u)
             /\ \/ req[t].api_key_id # req[u].api_key_id
                \/ AllowListed(t) /\ AllowListed(u) /\ req[t].hdr # req[u].hdr)
              => req[t].api_key # req[u].api_key)
    /\ [](\A t, u \in Threads :
            (InLimiter(t) /\ InLimiter(u) /\ DevMode) => req[t].api_key = req[u].api_key)
    /\ OnlyOwnBucketChanges

C11_Witness ==
    /\ env.PALISADE_API_KEYS # {}
    /\ \E k1, k2 \in DOMAIN buckets :
          /\ k1 # k2
          /\ k1 \in env.PALISADE_API_KEYS /\ k2 \in env.PALISADE_API_KEYS
          /\ bstat[k1].lastOut = "admit" /\ bstat[k2].lastOut = "admit"

Responded(t) == req[t].pc = "sent"
Captured(t) == Responded(t) /\ req[t].mw.inner.status # 0
Uuids == {UuidPool[i] : i \in 1..Len(UuidPool)}

(* C12: every error response (401, 429, 400, upstream errors, 500) has    *)
(* the payload { detail, request id, duration }.                           *)
C12_ErrorsCarryIdAndDuration ==
    \A t \in Threads :
        (Responded(t) /\ req[t].mw.out.status >= 400)
            => {"detail", "request_id", "duration_ms"} \subseteq req[t].mw.out.keys

(* C13: every response leaving dispatch has the x-request-id header: the  *)
(* inbound x-request-id when the request had one, a generated identifier  *)
(* otherwise; it is request.state.request_id.                              *)
C13_RequestIdEchoed ==
    \A t \in Threads :
        Responded(t) =>
            /\ req[t].mw.out.rid = req[t].mw.req_id
            /\ IF req[t].mw.inbound # NoHeader
               THEN req[t].mw.out.rid = req[t].mw.inbound
               ELSE req[t].mw.out.rid \in Uuids

(* C13 as amended: the inbound header is reused when it is not empty; an  *)
(* absent or empty one is replaced by a generated identifier.              *)
C13_NonEmptyRequestIdEchoed ==
    \A t \in Threads :
        Responded(t) =>
            /\ req[t].mw.out.rid = req[t].mw.req_id
            /\ IF req[t].mw.inbound \notin {NoHeader, ""}
               THEN req[t].mw.out.rid = req[t].mw.inbound
               ELSE req[t].mw.out.rid \in Uuids

C13_Witness ==
    \E t \in Threads :
        /\ Responded(t)
        /\ req[t].mw.out.status = 500
        /\ req[t].mw.inbound = "client-rid"
        /\ req[t].mw.out.rid = "client-rid"

RECURSIVE Concat(_)
Concat(chunks) == IF chunks = <<>> THEN <<>> ELSE Head(chunks) \o Concat(Tail(chunks))

(* C14: the bytes dispatch hands on are the concatenation of the chunks   *)
(* of the application's response, in order, and the status code is the    *)
(* application's.                                                          *)
C14_CaptureIsLossless ==
    \A t \in Threads :
        Captured(t) =>
            /\ Concat(req[t].mw.out.chunks) = Concat(req[t].mw.inner.chunks)
            /\ req[t].mw.out.status = req[t].mw.inner.status

C14_Witness ==
    \E t \in Threads :
        /\ Captured(t)
        /\ req[t].mw.inner.chunks = <<<<1>>, <<2, 3>>>>
        /\ req[t].mw.out.chunks = <<<<1, 2, 3>>>>
        /\ req[t].mw.out.status = 200

(* C18: a failure that no handler of the application catches is turned by *)
(* dispatch into a 500 response with the request id and the elapsed       *)
(* duration; no failure leaves dispatch, and a request ends only with a   *)
(* response.                                                               *)
C18_FailuresBecome500 ==
    /\ [](\A t \in Threads : req[t].pc # "escaped")
    /\ [][\A t \in Threads :
            (req[t].pc = "raised" /\ req'[t].pc # "raised") =>
                /\ req'[t].pc = "sent"
                /\ req'[t].mw.out.status = 500
                /\ req'[t].mw.out.rid = req[t].mw.req_id
                /\ req'[t].mw.out.duration_ms = (now - req[t].mw.start_time) * 1000
                /\ {"request_id", "duration_ms"} \subseteq req'[t].mw.out.keys]_vars
    /\ [][\A t \in Threads :
            (req[t].pc # "idle" /\ req'[t].pc = "idle") =>
                (req[t].pc = "sent" /\ req[t].mw.out.status # 0)]_vars

C18_Witness ==
    \E t \in Threads :
        /\ Responded(t)
        /\ req[t].stage = "unhandled"
        /\ req[t].mw.out.status = 500
        /\ req[t].mw.out.duration_ms > 0
        /\ req[t].mw.out.rid = req[t].mw.req_id

(* C15: over every key operation and verification, no record's is_active  *)
(* goes from false to true and no record leaves the store.                 *)
C15_RevocationIsMonotonic ==
    [][/\ Len(apikeys') >= Len(apikeys)
       /\ \A i \in 1..Len(apikeys) :
             /\ apikeys'[i].id = apikeys[i].id
             /\ apikeys'[i].key_hash = apikeys[i].key_hash
             /\ ~apikeys[i].is_active => ~apikeys'[i].is_active]_vars

C15_Witness ==
    /\ \E i \in 1..Len(apikeys) : ~apikeys[i].is_active
    /\ \E t \in Threads : Done(t) /\ req[t].status # 0

(* C16: a request that is classified (status 200), the store being        *)
(* available, adds exactly one row to the request log, with the identity  *)
(* bound by get_api_key, the endpoint, the request size, status 200 and   *)
(* the duration.                                                           *)
C16_OneAuditRowPerClassified ==
    [][\A t \in Threads :
          (/\ req[t].pc = "collab" /\ req'[t].pc = "done"
           /\ req'[t].status = 200 /\ req'[t].inp.fail = "none")
            => /\ Len(request_logs') = Len(request_logs) + 1
               /\ request_logs'[Len(request_logs')] =
                     LogCall(req[t].api_key_id, req[t].inp.ep, req[t].inp.size, 200,
                             (now - req[t].t0) * 1000)]_vars

StoredFields == {"id", "key_salt", "key_hash", "prefix", "is_active"}

(* C17: the plaintext create_key returned, presented while its record is  *)
(* active, is accepted and binds the id of that record; the record holds  *)
(* the salt and the digest of salt and plaintext, and the plaintext in no *)
(* field.                                                                  *)
C17_IssuedKeyVerifies ==
    /\ [](\A i \in 1..Len(apikeys) :
            /\ DOMAIN apikeys[i] = StoredFields
            /\ apikeys[i].key_hash = Sha256(<<apikeys[i].key_salt, issued[i]>>)
            /\ apikeys[i].key_salt # issued[i]
            /\ apikeys[i].prefix # issued[i])
    /\ [][\A t \in Threads : \A i \in 1..Len(apikeys) :
            (Verified(t) /\ req[t].hdr = issued[i] /\ apikeys[i].is_active)
              => /\ req'[t].status # 401
                 /\ req'[t].pc = "rl_now"
                 /\ req'[t].api_key_id = apikeys[i].id]_vars

C17_Witness ==
    \E t \in Threads :
        /\ req[t].pc = "rl_now"
        /\ req[t].api_key_id # NoneId
        /\ req[t].hdr = issued[req[t].api_key_id]
        /\ apikeys[req[t].api_key_id].is_active

(* C19: the stages run in the order verify, rate-limit, collaborator and  *)
(* the first failing stage ends the request: the collaborator is called   *)
(* at most once, only after verification and admission succeeded; a 401   *)
(* consumes no token; neither a 401 nor a 429 reaches the collaborator.   *)
C19_PipelineOrder ==
    [][\A t \in Threads :
          /\ (Verified(t) /\ req'[t].status = 401) => (req'[t].pc = "done" /\ buckets' = buckets)
          /\ (Verified(t) /\ req'[t].status # 401) => req'[t].pc = "rl_now"
          /\ (Admission(t) /\ req'[t].status = 429) => req'[t].pc = "done"
          /\ (req[t].pc # "rl_now" /\ req'[t].pc = "rl_now") => req[t].pc = "auth"
          /\ (req[t].pc # "handler" /\ req'[t].pc = "handler") => (Admission(t) /\ req[t].status = 0)
          /\ (req[t].pc # "collab" /\ req'[t].pc = "collab") => (req[t].pc = "handler" /\ req[t].status = 0)
          /\ req[t].pc = "collab" => req'[t].pc \in {"collab", "done"}
          /\ req[t].pc = "done" => req'[t].pc \in {"done", "idle"}]_vars

C19_Witness ==
    \E t, u \in Threads :
        /\ req[t].pc = "collab"
        /\ req[u].pc = "done" /\ req[u].status = 401
        /\ DOMAIN buckets = {req[t].api_key}

(* C20: on every call of every sequence of calls at non-decreasing times  *)
(* rate_limit, which stores nothing when it rejects, decides as the       *)
(* specified algorithm does, which stores the refilled count and the time *)
(* when it rejects.                                                        *)
C20_SameDecisionsAsSpecified ==
    \A k \in DOMAIN bstat : bstat[k].agree

C20_Witness ==
    \E k \in DOMAIN bstat :
        /\ k \in DOMAIN buckets
        /\ bstat[k].lastOut = "reject"
        /\ bstat[k].lastAt > bstat[k].first
        /\ bstat[k].stokens > buckets[k].tokens
        /\ bstat[k].slast > buckets[k].last
        /\ bstat[k].agree

====
